---- MODULE Spec2Model ----
(***************************************************************************)
(* skynet-rs: the signed registry (src/src/registry.rs) and the key        *)
(* derivation it relies on (src/src/crypto.rs).                             *)
(*                                                                         *)
(* Byte strings (Vec<u8>, &[u8], the bytes of a String) are sequences of   *)
(* chunks.  A chunk is either one literal byte, Lit(b) with b in 0..255,   *)
(* or the n-byte output of a cryptographic primitive, Opaque(n, what),     *)
(* which stands for n bytes determined by `what` and by nothing else: two  *)
(* outputs are equal exactly when the primitive and its inputs are equal   *)
(* (a collision-free hash, an unforgeable signature).  Strings are the     *)
(* byte strings of their ASCII text, so "as_bytes" changes nothing.        *)
(*                                                                         *)
(* The fields of a record are written in the order in which their names    *)
(* first occur in this module, which is the order TLC keeps them in: a     *)
(* record is then in its normal form when it is built, and TLC's workers   *)
(* never reorder a record that an action of Next passes on to two states.  *)
(***************************************************************************)
EXTENDS Integers, Sequences, FiniteSets, TLC

VARIABLES holder, published, call

vars == <<holder, published, call>>

-----------------------------------------------------------------------------
(* Bounds of the model *)

MaxPublished == 2   \* entries the host receives in one behaviour

-----------------------------------------------------------------------------
(* Byte strings *)

Lit(b) == <<b>>
Opaque(n, what) == <<n, what>>

IsLit(c) == Len(c) = 1
ChunkLen(c) == IF IsLit(c) THEN 1 ELSE c[1]

RECURSIVE ByteLen(_)
ByteLen(s) == IF s = <<>> THEN 0 ELSE ChunkLen(Head(s)) + ByteLen(Tail(s))

\* ASCII: the decimal digit d, and the lower-case hex digit of value v
DigitChar(d) == 48 + d
HexDigit(v) == IF v < 10 THEN 48 + v ELSE 87 + v

\* u64::to_string: the decimal digits, most significant first, no sign,
\* no leading zero
RECURSIVE to_string(_)
to_string(n) ==
  IF n < 10 THEN <<Lit(DigitChar(n))>>
  ELSE to_string(n \div 10) \o <<Lit(DigitChar(n % 10))>>

\* hex::ToHex::encode_hex: two lower-case hex digits per byte
EncodeChunk(c) ==
  IF IsLit(c)
    THEN <<Lit(HexDigit(c[1] \div 16)), Lit(HexDigit(c[1] % 16))>>
    ELSE <<Opaque(2 * c[1], <<"hex", c>>)>>

RECURSIVE encode_hex(_)
encode_hex(bytes) ==
  IF bytes = <<>> THEN <<>>
  ELSE EncodeChunk(Head(bytes)) \o encode_hex(Tail(bytes))

\* hex::FromHex::from_hex: Err on an odd number of characters and on a
\* character that is no hex digit (either case is accepted)
IsHexOf(c) == ~IsLit(c) /\ c[2][1] = "hex"

HexVal(ch) ==
  IF ch >= 48 /\ ch <= 57 THEN ch - 48          \* '0'..'9'
  ELSE IF ch >= 97 /\ ch <= 102 THEN ch - 87    \* 'a'..'f'
  ELSE IF ch >= 65 /\ ch <= 70 THEN ch - 55     \* 'A'..'F'
  ELSE -1

from_hex_ok(text) ==
  /\ ByteLen(text) % 2 = 0
  /\ \A i \in 1..Len(text) :
       IF IsLit(text[i]) THEN HexVal(text[i][1]) >= 0 ELSE IsHexOf(text[i])

RECURSIVE from_hex(_)
from_hex(text) ==
  IF text = <<>> THEN <<>>
  ELSE IF IsLit(Head(text))
    THEN <<Lit(16 * HexVal(text[1][1]) + HexVal(text[2][1]))>>
           \o from_hex(Tail(Tail(text)))
    ELSE <<Head(text)[2][2]>> \o from_hex(Tail(text))

-----------------------------------------------------------------------------
(* Primitives of the crypto crate, idealised *)

\* BLAKE2b has outputs of 1 to 64 bytes: Blake2b::new asserts it
Blake2b_panics(outlen) == outlen < 1 \/ outlen > 64

\* The one-byte BLAKE2b digests of the two-byte and shorter inputs that
\* start with the byte 1 and are hashed in this model (unkeyed BLAKE2b,
\* digest length 1): a one-byte output has 256 values, and is not
\* collision-free
Blake2b_1 ==
  (<<Lit(1)>> :> 190)
  @@ (<<Lit(1), Lit(13)>> :> 175)
  @@ (<<Lit(1), Lit(21)>> :> 175)
  @@ (<<Lit(1), Lit(102), Lit(111), Lit(111)>> :> 65)

\* Blake2b::new(outlen), Digest::input ..., Digest::result
Blake2b(outlen, input) ==
  IF outlen = 1 /\ input \in DOMAIN Blake2b_1
    THEN <<Lit(Blake2b_1[input])>>
    ELSE <<Opaque(outlen, <<"blake2b", input>>)>>

\* pbkdf2(HMAC-SHA-256 keyed by the seed, empty salt, 1000 rounds) into a
\* 32-byte derived key, then ed25519::keypair
gen_keypair_from_seed(seed) ==
  LET derived_key == Opaque(32, <<"pbkdf2", seed>>)
  IN  [public_key |-> <<Opaque(32, <<"pk", derived_key>>)>>,
       private_key |-> <<Opaque(64, <<"sk", derived_key>>)>>]

\* the public key that belongs to a private key
PublicOf(private_key) == <<Opaque(32, <<"pk", private_key[1][2][2]>>)>>

\* ed25519::signature(message, private_key): 64 bytes
ed25519_signature(message, private_key) ==
  <<Opaque(64, <<"ed25519", message, private_key>>)>>

\* ed25519::verify slices signature[0..32] and signature[32..64] without a
\* length check: a shorter signature aborts, bytes past 64 are not read
ed25519_verify_panics(signature) == ByteLen(signature) < 64

ed25519_verify(message, public_key, signature) ==
  /\ signature # <<>>
  /\ ~IsLit(signature[1])
  /\ signature[1][1] = 64
  /\ signature[1][2][1] = "ed25519"
  /\ signature[1][2][2] = message
  /\ PublicOf(signature[1][2][3]) = public_key

-----------------------------------------------------------------------------
(* crypto.rs *)

\* a function that returns a value, or aborts
Return(value) == [value |-> value, tag |-> "Return"]
Panic(at) == [tag |-> "Panic", at |-> at]

\* make_seed(length): `length` bytes from the thread's random generator;
\* rng is what the generator yields
make_seed(length, rng) == [i \in 1..length |-> Lit(rng[i])]

gen_keypair_and_seed_twice(length, rng) ==
  [seed |-> make_seed(length, [i \in 1..length |-> rng[length + 1 - i]]),
   keypair |-> gen_keypair_from_seed(make_seed(length, rng))]

gen_keypair_and_seed(length, rng) ==
  LET seed == make_seed(length, rng)
  IN  [seed |-> seed, keypair |-> gen_keypair_from_seed(seed)]

derive_child_seed_no_label(master, seed) ==
  IF Blake2b_panics(ByteLen(master))
    THEN Panic("Blake2b::new")
    ELSE Return(Blake2b(ByteLen(master), master))

derive_child_seed(master, seed) ==
  IF Blake2b_panics(ByteLen(master))
    THEN Panic("Blake2b::new")
    ELSE Return(Blake2b(ByteLen(master), master \o seed))

-----------------------------------------------------------------------------
(* registry.rs *)

DEFAULT_GET_ENTRY_TIMEOUT == 5

RegistryEntry(data_key, data, revision) ==
  [data_key |-> data_key, data |-> data, revision |-> revision]

SignedRegistryEntry(entry, signature) ==
  [signature |-> signature, entry |-> entry]

EntryOptions(hashed_data_key_hex) ==
  [hashed_data_key_hex |-> hashed_data_key_hex,
   endpoint_path |-> "/skynet/registry"]

hash_data_key_always(data_key, hashed_data_key_hex) ==
  encode_hex(Blake2b(32, data_key))

hash_data_key(data_key, hashed_data_key_hex) ==
  IF hashed_data_key_hex
    THEN data_key
    ELSE encode_hex(Blake2b(32, data_key))

hash_registry_entry_no_revision(entry, hashed_data_key_hex) ==
  Blake2b(32, hash_data_key(entry.data_key, hashed_data_key_hex)
                \o entry.data)

hash_registry_entry(entry, hashed_data_key_hex) ==
  Blake2b(32, hash_data_key(entry.data_key, hashed_data_key_hex)
                \o entry.data
                \o to_string(entry.revision))

\* SkynetResult
Ok(value) == [value |-> value, tag |-> "Ok"]
Err(error) == [tag |-> "Err", error |-> error]

HyperError == [variant |-> "HyperError"]
Utf8Error == [variant |-> "Utf8Error"]
PortalResponse(body_str) == [variant |-> "PortalResponse", body |-> body_str]
InvalidSignature == [variant |-> "InvalidSignature"]

\* A response body is bytes that are no UTF-8 text (kind "bytes"), text
\* that serde does not decode into GetResponse (kind "text": malformed
\* JSON, a missing or wrongly typed field), or a JSON object {data: string,
\* revision: u64, signature: string} (kind "json").
Body(kind, data, revision, signature) ==
  [signature |-> signature,
   data |-> data,
   revision |-> revision,
   kind |-> kind]

from_utf8_ok(body) == body.kind # "bytes"

GetResponse_ok(body) == body.kind = "json"

\* "ed25519:"
Ed25519Prefix ==
  <<Lit(101), Lit(100), Lit(50), Lit(53), Lit(53), Lit(49), Lit(57), Lit(58)>>

\* get_registry_entry, the response body as text and as a GetResponse
parse_response_lossy(body) ==
  IF ~(from_utf8_ok(body) /\ GetResponse_ok(body))
    THEN Err(PortalResponse(body))
    ELSE Ok(body)

parse_response_untrusted(body) ==
  IF ~from_utf8_ok(body) THEN Err(Utf8Error)
  ELSE IF ~GetResponse_ok(body) THEN Err(InvalidSignature)
  ELSE Ok(body)

parse_response(body) ==
  IF ~from_utf8_ok(body) THEN Err(Utf8Error)
  ELSE IF ~GetResponse_ok(body) THEN Err(PortalResponse(body))
  ELSE Ok(body)

\* get_registry_entry, the end: hash the reconstructed entry, verify,
\* return.  `verify` is what became of the call of ed25519::verify.
verify_entry_unchecked(public_key, opt, entry) ==
  LET hash == hash_registry_entry(entry.entry, opt.hashed_data_key_hex)
  IN  IF ed25519_verify_panics(entry.signature)
        THEN [result |-> Panic("ed25519::verify"), verify |-> "aborted"]
      ELSE [result |-> Ok(entry),
            verify |-> IF ed25519_verify(hash, public_key, entry.signature)
                         THEN "accepted" ELSE "rejected"]

verify_entry(public_key, opt, entry) ==
  LET hash == hash_registry_entry(entry.entry, opt.hashed_data_key_hex)
  IN  IF ed25519_verify_panics(entry.signature)
        THEN [result |-> Panic("ed25519::verify"), verify |-> "aborted"]
      ELSE IF ~ed25519_verify(hash, public_key, entry.signature)
        THEN [result |-> Err(InvalidSignature), verify |-> "rejected"]
      ELSE [result |-> Ok(entry), verify |-> "accepted"]

\* get_registry_entry from the response body on: the value it returns
\* (result) and what became of the call of ed25519::verify (verify)
get_registry_entry(public_key, data_key, opt, body) ==
  LET res == parse_response(body)
  IN  IF res.tag = "Err"
        THEN [result |-> res, verify |-> "not called"]
      ELSE IF ~from_hex_ok(res.value.data)
        THEN [result |-> Panic("from_hex(res.data).unwrap()"),
              verify |-> "not called"]
      ELSE IF ~from_hex_ok(res.value.signature)
        THEN [result |-> Panic("from_hex(res.signature).unwrap()"),
              verify |-> "not called"]
      ELSE verify_entry(public_key, opt,
             SignedRegistryEntry(
               RegistryEntry(data_key, from_hex(res.value.data),
                             res.value.revision),
               from_hex(res.value.signature)))

\* get_registry_entry up to the request it sends
get_request_raw_key(public_key, data_key, opt) ==
  [body |-> <<>>,
   method |-> "GET",
   path |-> opt.endpoint_path,
   query |-> [publickey |-> Ed25519Prefix \o encode_hex(public_key),
              datakey |-> data_key,
              timeout |-> to_string(DEFAULT_GET_ENTRY_TIMEOUT)]]

get_request_always_hashed(public_key, data_key, opt) ==
  [body |-> <<>>,
   method |-> "GET",
   path |-> opt.endpoint_path,
   query |-> [publickey |-> Ed25519Prefix \o encode_hex(public_key),
              datakey |-> hash_data_key(data_key, FALSE),
              timeout |-> to_string(DEFAULT_GET_ENTRY_TIMEOUT)]]

get_request(public_key, data_key, opt) ==
  [body |-> <<>>,
   method |-> "GET",
   path |-> opt.endpoint_path,
   query |-> [publickey |-> Ed25519Prefix \o encode_hex(public_key),
              datakey |-> hash_data_key(data_key, opt.hashed_data_key_hex),
              timeout |-> to_string(DEFAULT_GET_ENTRY_TIMEOUT)]]

\* set_registry_entry up to the request it sends
set_request_raw_key(public_key, private_key, entry, opt) ==
  LET hash == hash_registry_entry(entry, TRUE)
      signature == ed25519_signature(hash, private_key)
  IN  [body |-> [signature |-> signature,
                 data |-> entry.data,
                 revision |-> entry.revision,
                 publickey |-> [algorithm |-> "ed25519", key |-> public_key],
                 datakey |-> hash_data_key(entry.data_key,
                                           opt.hashed_data_key_hex)],
       method |-> "POST",
       path |-> opt.endpoint_path]

set_request_unhashed_datakey(public_key, private_key, entry, opt) ==
  LET hash == hash_registry_entry(entry, opt.hashed_data_key_hex)
      signature == ed25519_signature(hash, private_key)
  IN  [body |-> [signature |-> signature,
                 data |-> entry.data,
                 revision |-> entry.revision,
                 publickey |-> [algorithm |-> "ed25519", key |-> public_key],
                 datakey |-> entry.data_key],
       method |-> "POST",
       path |-> opt.endpoint_path]

set_request(public_key, private_key, entry, opt) ==
  LET hash == hash_registry_entry(entry, opt.hashed_data_key_hex)
      signature == ed25519_signature(hash, private_key)
  IN  [body |-> [signature |-> signature,
                 data |-> entry.data,
                 revision |-> entry.revision,
                 publickey |-> [algorithm |-> "ed25519", key |-> public_key],
                 datakey |-> hash_data_key(entry.data_key,
                                           opt.hashed_data_key_hex)],
       method |-> "POST",
       path |-> opt.endpoint_path]

-----------------------------------------------------------------------------
(* The callers, the host and the calls *)

\* seeds, and the keypairs derived from them
Seeds == {<<Lit(1)>>, <<Lit(2), Lit(3)>>}
Keypairs == {gen_keypair_from_seed(seed) : seed \in Seeds}

\* data keys: the key holder publishes under "a"; a reader looks up "a" or
\* the hex text of its hash (what a caller that passes hashed_data_key_hex
\* = true is meant to supply)
PublishKeys == {<<Lit(97)>>}
DataKeys == PublishKeys \cup {hash_data_key(k, FALSE) : k \in PublishKeys}

\* payloads: empty, and "1"
DataValues == {<<>>, <<Lit(49)>>}

Revisions == {0, 1}

Idle == [op |-> "none", pc |-> "idle"]

\* The JSON strings a host may put in the data field: the hex text of a
\* payload, and an odd number of hex digits ("3")
HostData == {encode_hex(d) : d \in DataValues} \cup {<<Lit(51)>>}

\* The revisions a host may answer with: those published, and one whose
\* decimal text is a payload followed by a published revision ("1", "0")
HostRevisions == Revisions \cup {10}

\* The JSON strings a host may put in the signature field: the hex text of
\* a signature it has received, of a signature made with a key of its own
\* over the entry it answers with, of a single byte ("00"), and text that
\* is no hex ("zz")
HostSignatures(public_key, data_key, opt, data, revision) ==
  {encode_hex(published[i].request.body.signature) : i \in 1..Len(published)}
  \cup {encode_hex(ed25519_signature(
                     hash_registry_entry(
                       RegistryEntry(data_key,
                                     IF from_hex_ok(data) THEN from_hex(data)
                                                          ELSE <<>>,
                                     revision),
                       opt.hashed_data_key_hex),
                     k.private_key)) :
           k \in {kp \in Keypairs : kp.public_key # public_key}}
  \cup {<<Lit(48), Lit(48)>>, <<Lit(122), Lit(122)>>}

\* what an honest host answers: the entry it received last for the public
\* key and data key of the lookup, or text that is no entry
Matches(request, i) ==
  /\ request.query.publickey =
       Ed25519Prefix \o encode_hex(published[i].request.body.publickey.key)
  /\ request.query.datakey = published[i].request.body.datakey

Stored(request) == {i \in 1..Len(published) : Matches(request, i)}

Last(S) == CHOOSE i \in S : \A j \in S : j <= i

HonestBody(request) ==
  IF Stored(request) = {}
    THEN Body("text", <<>>, 0, <<>>)
    ELSE LET payload == published[Last(Stored(request))].request.body
         IN  Body("json", encode_hex(payload.data), payload.revision,
                  encode_hex(payload.signature))

\* every body the host may answer a lookup with: the honest one included
HostBodies(public_key, data_key, opt, request) ==
  {HonestBody(request), Body("bytes", <<>>, 0, <<>>), Body("text", <<>>, 0, <<>>)}
  \cup UNION {
         {Body("json", data, revision, signature) :
            signature \in HostSignatures(public_key, data_key, opt, data,
                                         revision)} :
         data \in HostData, revision \in HostRevisions}

Init ==
  /\ holder \in Keypairs
  /\ published = <<>>
  /\ call = Idle

\* the key holder calls set_registry_entry: hash, sign, serialize, send
SetStart(entry, opt) ==
  /\ call.pc # "await"
  /\ Len(published) < MaxPublished
  /\ call' = [public_key |-> holder.public_key,
              private_key |-> holder.private_key,
              entry |-> entry,
              opt |-> opt,
              op |-> "set",
              pc |-> "await",
              request |-> set_request(holder.public_key, holder.private_key,
                                      entry, opt)]
  /\ UNCHANGED <<holder, published>>

\* the host receives the entry and answers; the status is not looked at
SetRespond ==
  /\ call.op = "set" /\ call.pc = "await"
  /\ published' = Append(published,
                         [public_key |-> call.public_key,
                          private_key |-> call.private_key,
                          entry |-> call.entry, opt |-> call.opt,
                          request |-> call.request])
  /\ call' = [call EXCEPT !.pc = "done"] @@ [result |-> Ok(<<>>)]
  /\ UNCHANGED holder

\* client.http.request(req) fails
SetTransportError ==
  /\ call.op = "set" /\ call.pc = "await"
  /\ call' = [call EXCEPT !.pc = "done"] @@ [result |-> Err(HyperError)]
  /\ UNCHANGED <<holder, published>>

\* anyone calls get_registry_entry: build the lookup, send
GetStart(public_key, data_key, opt) ==
  /\ call.pc # "await"
  /\ call' = [public_key |-> public_key,
              data_key |-> data_key,
              opt |-> opt,
              op |-> "get",
              pc |-> "await",
              request |-> get_request(public_key, data_key, opt)]
  /\ UNCHANGED <<holder, published>>

\* the response arrives: decode, verify, return
GetRespond ==
  /\ call.op = "get" /\ call.pc = "await"
  /\ \E body \in HostBodies(call.public_key, call.data_key, call.opt,
                             call.request) :
       LET out == get_registry_entry(call.public_key, call.data_key,
                                     call.opt, body)
       IN  call' = [call EXCEPT !.pc = "done"]
                     @@ [body |-> body, result |-> out.result,
                         verify |-> out.verify]
  /\ UNCHANGED <<holder, published>>

\* client.http.request(req) or body::to_bytes fails
GetTransportError ==
  /\ call.op = "get" /\ call.pc = "await"
  /\ call' = [call EXCEPT !.pc = "done"]
               @@ [result |-> Err(HyperError), verify |-> "not called"]
  /\ UNCHANGED <<holder, published>>

Next ==
  \/ \E data_key \in PublishKeys, data \in DataValues, revision \in Revisions,
        flag \in BOOLEAN :
       SetStart(RegistryEntry(data_key, data, revision), EntryOptions(flag))
  \/ SetRespond
  \/ SetTransportError
  \/ \E kp \in Keypairs, data_key \in DataKeys, flag \in BOOLEAN :
       GetStart(kp.public_key, data_key, EntryOptions(flag))
  \/ GetRespond
  \/ GetTransportError

Spec == Init /\ [][Next]_vars

-----------------------------------------------------------------------------
(* What the calls of a state are *)

GetDone == call.op = "get" /\ call.pc = "done"

\* the HTTP exchange of the lookup completed: a body was read
Exchanged == GetDone /\ "body" \in DOMAIN call

Flag == call.opt.hashed_data_key_hex

\* the body decoded: text, a GetResponse, hex in both fields
Decoded ==
  /\ Exchanged
  /\ from_utf8_ok(call.body)
  /\ GetResponse_ok(call.body)
  /\ from_hex_ok(call.body.data)
  /\ from_hex_ok(call.body.signature)

\* the entry get_registry_entry reconstructs from a decoded body
Reconstructed ==
  RegistryEntry(call.data_key, from_hex(call.body.data), call.body.revision)

\* publish i was made with the private key of the public key looked up
ByKeyHolder(i) == PublicOf(published[i].private_key) = call.public_key

\* the body is the response an honest host gave for publish i
ResponseOf(i) ==
  LET payload == published[i].request.body
  IN  Body("json", encode_hex(payload.data), payload.revision,
           encode_hex(payload.signature))

-----------------------------------------------------------------------------
(* C1 *)

\* C1: get_registry_entry returns Ok(entry) only after ed25519::verify
\* accepted entry.signature for the canonical hash of entry.entry under the
\* caller's public key; a call that ends otherwise returns no entry, and
\* the body an error carries is one that did not decode.
C1_OkOnlyVerified ==
  GetDone =>
    IF call.result.tag = "Ok"
      THEN /\ call.verify = "accepted"
           /\ call.result.value.entry = Reconstructed
           /\ ed25519_verify(
                hash_registry_entry(call.result.value.entry, Flag),
                call.public_key, call.result.value.signature)
      ELSE /\ "value" \notin DOMAIN call.result
           /\ (call.result.tag = "Err"
                 /\ call.result.error.variant = "PortalResponse")
                => ~GetResponse_ok(call.result.error.body)

\* a lookup answered Ok to a response that is not the one an honest host
\* gives
C1_Witness ==
  /\ GetDone
  /\ call.result.tag = "Ok"
  /\ call.body # HonestBody(call.request)

-----------------------------------------------------------------------------
(* C2 *)

\* C2: get_registry_entry returns Ok only with an entry whose normalized
\* data key, data and revision are those of an entry the holder of the
\* private key signed in set_registry_entry.
C2_NoForgery ==
  (GetDone /\ call.result.tag = "Ok") =>
    \E i \in 1..Len(published) :
      /\ ByKeyHolder(i)
      /\ hash_data_key(published[i].entry.data_key,
                       published[i].opt.hashed_data_key_hex)
           = hash_data_key(call.data_key, Flag)
      /\ published[i].entry.data = call.result.value.entry.data
      /\ published[i].entry.revision = call.result.value.entry.revision

-----------------------------------------------------------------------------
(* C3 *)

\* C3: once revision r1 and later revision r2 > r1 were published for the
\* public key and data key of a lookup, the lookup does not return Ok with
\* the revision-r1 entry when the host answers with the old response.
C3_NoReplay ==
  (GetDone /\ call.result.tag = "Ok") =>
    ~ \E i, j \in 1..Len(published) :
        /\ i < j
        /\ Matches(call.request, i)
        /\ Matches(call.request, j)
        /\ published[i].entry.revision < published[j].entry.revision
        /\ call.body = ResponseOf(i)
        /\ call.result.value.entry.revision = published[i].entry.revision

-----------------------------------------------------------------------------
(* C4 *)

\* C4: get_registry_entry returns Err(InvalidSignature) exactly when the
\* body decoded and ed25519::verify returned false for the canonical hash
\* of the reconstructed entry under the caller's public key; the error
\* carries no entry.
C4_InvalidSignatureIff ==
  GetDone =>
    /\ call.result = Err(InvalidSignature)
         <=> /\ Decoded
             /\ ~ed25519_verify_panics(from_hex(call.body.signature))
             /\ ~ed25519_verify(hash_registry_entry(Reconstructed, Flag),
                                call.public_key,
                                from_hex(call.body.signature))
    /\ call.result.tag = "Err" => DOMAIN call.result = {"tag", "error"}
    /\ (call.result.tag = "Err"
          /\ call.result.error.variant = "InvalidSignature")
         => DOMAIN call.result.error = {"variant"}

\* a lookup rejected the signature of a decoded response
C4_Witness ==
  /\ Decoded
  /\ call.result = Err(InvalidSignature)

-----------------------------------------------------------------------------
(* C5 *)

\* C5: a lookup whose HTTP exchange completed ends in Ok with a verified
\* entry or in Err; it never aborts.
C5_OkOrErr ==
  Exchanged =>
    \/ call.result.tag = "Ok" /\ call.verify = "accepted"
    \/ call.result.tag = "Err"

-----------------------------------------------------------------------------
(* C6 *)

\* C6: when the body is a GetResponse whose data or signature is no valid
\* hex, get_registry_entry returns Err(PortalResponse(body)).
C6_BadHexIsPortalResponse ==
  (/\ Exchanged
   /\ from_utf8_ok(call.body)
   /\ GetResponse_ok(call.body)
   /\ ~(from_hex_ok(call.body.data) /\ from_hex_ok(call.body.signature)))
    => call.result = Err(PortalResponse(call.body))

-----------------------------------------------------------------------------
(* C7 *)

\* C7 as stated: every body that does not decode as a GetResponse, bytes
\* that are no text included, ends in Err(PortalResponse(body)), and
\* ed25519::verify is not called.
C7_DecodeFailureIsPortalResponse ==
  (Exchanged /\ ~(from_utf8_ok(call.body) /\ GetResponse_ok(call.body)))
    => /\ call.result = Err(PortalResponse(call.body))
       /\ call.verify = "not called"

\* C7 as amended: a body that is text but no GetResponse ends in
\* Err(PortalResponse(body)); a body that is no UTF-8 text ends in
\* Err(Utf8Error); ed25519::verify is called in neither case.
C7_DecodeFailure ==
  (Exchanged /\ ~(from_utf8_ok(call.body) /\ GetResponse_ok(call.body)))
    => /\ call.result = IF from_utf8_ok(call.body)
                          THEN Err(PortalResponse(call.body))
                          ELSE Err(Utf8Error)
       /\ call.verify = "not called"

\* a lookup was answered with text that is no GetResponse
C7_Witness ==
  /\ Exchanged
  /\ from_utf8_ok(call.body)
  /\ ~GetResponse_ok(call.body)
  /\ call.result = Err(PortalResponse(call.body))

-----------------------------------------------------------------------------
(* C8 *)

\* publish i was made with the arguments of the lookup
SameArguments(i) ==
  /\ published[i].public_key = call.public_key
  /\ published[i].entry.data_key = call.data_key
  /\ published[i].opt.hashed_data_key_hex = Flag

\* the host received nothing for the public key and data key of publish i
\* after it
NotSuperseded(i) ==
  \A j \in 1..Len(published) :
    j > i => \/ published[j].request.body.publickey
                  # published[i].request.body.publickey
             \/ published[j].request.body.datakey
                  # published[i].request.body.datakey

\* C8: against a host that stores what it receives and answers with it, a
\* lookup with the public key, data key and hashed_data_key_hex of a
\* publish made with a derived keypair returns Ok with the entry published
\* (data key, data and revision) and its signature.
C8_RoundTrip ==
  (Exchanged /\ call.body = HonestBody(call.request)) =>
    \A i \in 1..Len(published) :
      (/\ SameArguments(i)
       /\ NotSuperseded(i)
       /\ ByKeyHolder(i))
        => call.result =
             Ok(SignedRegistryEntry(published[i].entry,
                                    published[i].request.body.signature))

\* an honest answer to the lookup of an entry published with
\* hashed_data_key_hex = false was accepted
C8_Witness ==
  /\ Exchanged
  /\ call.body = HonestBody(call.request)
  /\ ~Flag
  /\ call.result.tag = "Ok"
  /\ \E i \in 1..Len(published) : SameArguments(i) /\ NotSuperseded(i)

-----------------------------------------------------------------------------
(* C9 *)

\* C9: the signature set_registry_entry puts in its request, made with the
\* private key of a derived keypair over hash_registry_entry(entry), is
\* accepted by ed25519::verify for hash_registry_entry(entry) under the
\* public key of the keypair, for either hashed_data_key_hex.
C9_SignThenVerify ==
  (call.op = "set"
    /\ \E kp \in Keypairs : /\ kp.public_key = call.public_key
                            /\ kp.private_key = call.private_key)
    => /\ ~ed25519_verify_panics(call.request.body.signature)
       /\ ed25519_verify(
            hash_registry_entry(call.entry, call.opt.hashed_data_key_hex),
            call.public_key, call.request.body.signature)

\* a publish with the raw data key hashed by the client, signed with the
\* keypair of the second seed
C9_Witness ==
  /\ call.op = "set"
  /\ ~call.opt.hashed_data_key_hex
  /\ call.entry.data # <<>>
  /\ call.public_key = gen_keypair_from_seed(<<Lit(2), Lit(3)>>).public_key

-----------------------------------------------------------------------------
(* C10 *)

\* the decoded response carries the signature of publish i, made by the
\* holder of the key looked up, under the same hashed_data_key_hex
SignatureOf(i) ==
  /\ ByKeyHolder(i)
  /\ published[i].opt.hashed_data_key_hex = Flag
  /\ from_hex(call.body.signature) = published[i].request.body.signature

Count(b) == IF b THEN 1 ELSE 0

\* how many of data key, data and revision of the reconstructed entry
\* differ from the entry of publish i
Differences(i) ==
  Count(Reconstructed.data_key # published[i].entry.data_key)
  + Count(Reconstructed.data # published[i].entry.data)
  + Count(Reconstructed.revision # published[i].entry.revision)

\* C10: a lookup presented with a validly signed entry in which exactly
\* one of data, revision and data key was changed, the signature left as
\* it was, returns Err(InvalidSignature).
C10_TamperOneField ==
  Decoded =>
    \A i \in 1..Len(published) :
      (SignatureOf(i) /\ Differences(i) = 1)
        => call.result = Err(InvalidSignature)

\* the revision of a signed entry was incremented without signing again
C10_Witness ==
  /\ Decoded
  /\ \E i \in 1..Len(published) :
       /\ SignatureOf(i)
       /\ Differences(i) = 1
       /\ Reconstructed.revision = published[i].entry.revision + 1

\* the data key alone was changed
C10_WitnessDataKey ==
  /\ Decoded
  /\ \E i \in 1..Len(published) :
       /\ SignatureOf(i)
       /\ Differences(i) = 1
       /\ Reconstructed.data_key # published[i].entry.data_key

-----------------------------------------------------------------------------
(* Several calls in flight: the futures of get_registry_entry and
   set_registry_entry share the client only, and each keeps its arguments
   and locals to itself.  `call` maps each caller to its call, `published`
   is what the remote store has accepted. *)

MaxCallers == 2

Callers == 1..MaxCallers

\* the revisions the remote store holds for the public key and data key of
\* a submission
StoredRevisions(request) ==
  {published[i].request.body.revision :
     i \in {j \in 1..Len(published) :
              /\ published[j].request.body.publickey = request.body.publickey
              /\ published[j].request.body.datakey = request.body.datakey}}

\* the bodies the remote store answers a lookup with
StoreBodies(request) ==
  {HonestBody(request), Body("bytes", <<>>, 0, <<>>),
   Body("text", <<>>, 0, <<>>)}

ConcInit ==
  /\ holder \in Keypairs
  /\ published = <<>>
  /\ call = [c \in Callers |-> Idle]

\* a variant that compares the revision with those it has seen, and refuses
ConcSetStart_checked(c, entry, opt) ==
  /\ call[c].pc # "await"
  /\ LET request == set_request(holder.public_key, holder.private_key,
                                entry, opt)
         started == [public_key |-> holder.public_key,
                     private_key |-> holder.private_key,
                     entry |-> entry,
                     opt |-> opt,
                     op |-> "set",
                     pc |-> "await",
                     request |-> request,
                     sent |-> 1]
     IN  IF \E r \in StoredRevisions(request) : entry.revision <= r
           THEN call' = [call EXCEPT
                           ![c] = [started EXCEPT !.pc = "done", !.sent = 0]
                                    @@ [result |-> Err(InvalidSignature)]]
           ELSE call' = [call EXCEPT ![c] = started]
  /\ UNCHANGED <<holder, published>>

\* caller c calls set_registry_entry: hash, sign, serialize, send
ConcSetStart(c, entry, opt) ==
  /\ call[c].pc # "await"
  /\ call' = [call EXCEPT
                ![c] = [public_key |-> holder.public_key,
                        private_key |-> holder.private_key,
                        entry |-> entry,
                        opt |-> opt,
                        op |-> "set",
                        pc |-> "await",
                        request |-> set_request(holder.public_key,
                                                holder.private_key,
                                                entry, opt),
                        sent |-> 1]]
  /\ UNCHANGED <<holder, published>>

\* a variant that turns a status other than 200 into an error
ConcSetRespond_status(c, status) ==
  /\ call[c].op = "set" /\ call[c].pc = "await"
  /\ IF status = 200
       THEN /\ Len(published) < MaxPublished
            /\ \A r \in StoredRevisions(call[c].request) :
                 r < call[c].entry.revision
            /\ published' = Append(published,
                                   [public_key |-> call[c].public_key,
                                    private_key |-> call[c].private_key,
                                    entry |-> call[c].entry,
                                    opt |-> call[c].opt,
                                    request |-> call[c].request])
       ELSE UNCHANGED published
  /\ call' = [call EXCEPT
                ![c] = [@ EXCEPT !.pc = "done"]
                         @@ [result |-> IF status = 200
                                          THEN Ok(<<>>)
                                          ELSE Err(PortalResponse(<<>>)),
                             status |-> status]]
  /\ UNCHANGED holder

\* the remote store answers the submission of caller c: with 200 when it
\* stores the entry, which it does only for a revision above those it
\* holds, with 400 when it rejects it; the response is dropped unread
ConcSetRespond(c, status) ==
  /\ call[c].op = "set" /\ call[c].pc = "await"
  /\ IF status = 200
       THEN /\ Len(published) < MaxPublished
            /\ \A r \in StoredRevisions(call[c].request) :
                 r < call[c].entry.revision
            /\ published' = Append(published,
                                   [public_key |-> call[c].public_key,
                                    private_key |-> call[c].private_key,
                                    entry |-> call[c].entry,
                                    opt |-> call[c].opt,
                                    request |-> call[c].request])
       ELSE UNCHANGED published
  /\ call' = [call EXCEPT
                ![c] = [@ EXCEPT !.pc = "done"]
                         @@ [result |-> Ok(<<>>), status |-> status]]
  /\ UNCHANGED holder

\* caller c calls get_registry_entry: build the lookup, send
ConcGetStart(c, public_key, data_key, opt) ==
  /\ call[c].pc # "await"
  /\ call' = [call EXCEPT
                ![c] = [public_key |-> public_key,
                        data_key |-> data_key,
                        opt |-> opt,
                        op |-> "get",
                        pc |-> "await",
                        request |-> get_request(public_key, data_key, opt),
                        sent |-> 1]]
  /\ UNCHANGED <<holder, published>>

\* a variant that keeps the arguments of the lookup in a place the calls
\* share: the response is decoded with the arguments of any lookup
ConcGetRespond_shared(c) ==
  /\ call[c].op = "get" /\ call[c].pc = "await"
  /\ \E body \in StoreBodies(call[c].request), d \in Callers :
       /\ call[d].op = "get"
       /\ call' = [call EXCEPT
                     ![c] = [@ EXCEPT !.pc = "done"]
                              @@ [body |-> body,
                                  result |-> get_registry_entry(
                                               call[d].public_key,
                                               call[d].data_key,
                                               call[d].opt, body).result]]
  /\ UNCHANGED <<holder, published>>

\* the response to caller c arrives: decode, verify, return
ConcGetRespond(c) ==
  /\ call[c].op = "get" /\ call[c].pc = "await"
  /\ \E body \in StoreBodies(call[c].request) :
       call' = [call EXCEPT
                  ![c] = [@ EXCEPT !.pc = "done"]
                           @@ [body |-> body,
                               result |-> get_registry_entry(
                                            call[c].public_key,
                                            call[c].data_key,
                                            call[c].opt, body).result]]
  /\ UNCHANGED <<holder, published>>

\* the stages of a call that can fail in the transport: the request of
\* either call, and the read of the body in get_registry_entry
Stages(op) == IF op = "get" THEN {"body", "request"} ELSE {"request"}

\* a variant that sends the request once more before it gives up
ConcTransportError_retry(c, stage) ==
  /\ call[c].pc = "await"
  /\ stage \in Stages(call[c].op)
  /\ call' = [call EXCEPT
                ![c] = [@ EXCEPT !.pc = "done", !.sent = @ + 1]
                         @@ [result |-> Err(HyperError), failed |-> stage]]
  /\ UNCHANGED <<holder, published>>

\* client.http.request(req) or body::to_bytes fails for caller c: `?`
\* returns the error, wrapped by map_err(HyperError)
ConcTransportError(c, stage) ==
  /\ call[c].pc = "await"
  /\ stage \in Stages(call[c].op)
  /\ call' = [call EXCEPT
                ![c] = [@ EXCEPT !.pc = "done"]
                         @@ [result |-> Err(HyperError), failed |-> stage]]
  /\ UNCHANGED <<holder, published>>

ConcNext ==
  \E c \in Callers :
    \/ \E data_key \in PublishKeys, revision \in Revisions :
         ConcSetStart(c, RegistryEntry(data_key, <<Lit(49)>>, revision),
                      EntryOptions(FALSE))
    \/ \E status \in {200, 400} : ConcSetRespond(c, status)
    \/ \E kp \in Keypairs, data_key \in PublishKeys :
         ConcGetStart(c, kp.public_key, data_key, EntryOptions(FALSE))
    \/ ConcGetRespond(c)
    \/ \E stage \in {"body", "request"} : ConcTransportError(c, stage)

ConcSpec == ConcInit /\ [][ConcNext]_vars

\* the request a call makes of its arguments
RequestOf(a) ==
  IF a.op = "set"
    THEN set_request(a.public_key, a.private_key, a.entry, a.opt)
    ELSE get_request(a.public_key, a.data_key, a.opt)

\* the result a call makes of its arguments and of what came back
ResultOf(a) ==
  IF "failed" \in DOMAIN a
    THEN Err(HyperError)
    ELSE IF a.op = "set"
           THEN Ok(<<>>)
           ELSE get_registry_entry(a.public_key, a.data_key, a.opt,
                                   a.body).result

\* the arguments of a call
ArgumentsOf(a) ==
  IF a.op = "set"
    THEN <<"set", a.public_key, a.private_key, a.entry, a.opt>>
    ELSE <<"get", a.public_key, a.data_key, a.opt>>

\* what came back to a call that is done
ResponseTo(a) ==
  IF "failed" \in DOMAIN a
    THEN <<"failed">>
    ELSE IF a.op = "set" THEN <<"status", a.status>> ELSE <<"body", a.body>>

-----------------------------------------------------------------------------
(* C11 *)

\* C11: a call of get_registry_entry or set_registry_entry issues at most
\* one HTTP request; when the request, or the read of its body, fails in
\* the transport, the call is over with an error that wraps the failure
\* (HyperError) and has issued that one request only.
C11_NoRetry ==
  \A c \in Callers :
    call[c].op # "none" =>
      /\ call[c].sent <= 1
      /\ "failed" \in DOMAIN call[c] =>
           /\ call[c].pc = "done"
           /\ call[c].result = Err(HyperError)
           /\ call[c].sent = 1

\* a lookup whose body could not be read and a submission whose request
\* failed
C11_Witness ==
  \E c, d \in Callers :
    /\ call[c].op = "get" /\ call[c].pc = "done"
    /\ "failed" \in DOMAIN call[c] /\ call[c].failed = "body"
    /\ call[d].op = "set" /\ call[d].pc = "done"
    /\ "failed" \in DOMAIN call[d]

-----------------------------------------------------------------------------
(* C12 *)

\* C12: whenever the HTTP exchange of set_registry_entry completes, the
\* call returns Ok(()) whatever the status of the response is, also when
\* the remote store rejected the entry for a revision that is not above the
\* one it holds.
C12_SetIgnoresOutcome ==
  \A c \in Callers :
    (call[c].op = "set" /\ call[c].pc = "done"
       /\ "status" \in DOMAIN call[c]) =>
      call[c].result = Ok(<<>>)

\* two publishers raced for the same key: the store holds the entry of one
\* and rejected that of the other, whose revision was not higher
C12_Witness ==
  \E c, d \in Callers :
    /\ c # d
    /\ call[c].op = "set" /\ call[c].pc = "done"
    /\ call[d].op = "set" /\ call[d].pc = "done"
    /\ "status" \in DOMAIN call[c] /\ call[c].status = 400
    /\ "status" \in DOMAIN call[d] /\ call[d].status = 200
    /\ call[c].request.body.datakey = call[d].request.body.datakey
    /\ call[c].entry.revision <= call[d].entry.revision
    /\ call[c].result = Ok(<<>>)

-----------------------------------------------------------------------------
(* The functions of crypto.rs and the hashes of registry.rs, applied to
   inputs of a bounded set.  `call` is the application made last, `holder`
   the key pair derived last, `published` the key pairs derived so far, each
   with its seed. *)

\* master seeds: of no byte, of one byte and of two, of the lengths of a
\* 256 and of a 512 bit seed, and of one byte more
MasterLengths == {0, 1, 2, 32, 64, 65}

Masters == {[i \in 1..n |-> Lit(1)] : n \in MasterLengths}

\* labels: none, two single bytes, and "foo" of the test
Labels == {<<>>, <<Lit(13)>>, <<Lit(21)>>, <<Lit(102), Lit(111), Lit(111)>>}

\* what gen_keypair_and_seed is asked for, and what the generator yields
SeedLengths == {0, 1, 2}

RngBytes == {1, 2}

GeneratedSeeds ==
  UNION {{make_seed(n, rng) : rng \in [1..n -> RngBytes]} : n \in SeedLengths}

PureInit ==
  /\ holder \in Keypairs
  /\ published = <<>>
  /\ call = Idle

DeriveChildSeed(master, seed) ==
  /\ call' = [seed |-> seed,
              master |-> master,
              result |-> derive_child_seed(master, seed),
              op |-> "derive_child_seed",
              pc |-> "done"]
  /\ UNCHANGED <<holder, published>>

GenKeypairAndSeed(length, rng) ==
  /\ Len(published) < MaxPublished
  /\ LET out == gen_keypair_and_seed(length, rng)
     IN  /\ call' = [seed |-> out.seed,
                     length |-> length,
                     keypair |-> out.keypair,
                     op |-> "gen_keypair_and_seed",
                     pc |-> "done"]
         /\ holder' = out.keypair
         /\ published' = Append(published,
                                [seed |-> out.seed, keypair |-> out.keypair])

GenKeypairFromSeed(seed) ==
  /\ Len(published) < MaxPublished
  /\ LET keypair == gen_keypair_from_seed(seed)
     IN  /\ call' = [seed |-> seed,
                     keypair |-> keypair,
                     op |-> "gen_keypair_from_seed",
                     pc |-> "done"]
         /\ holder' = keypair
         /\ published' = Append(published,
                                [seed |-> seed, keypair |-> keypair])

HashRegistryEntry(entry, hashed_data_key_hex) ==
  /\ call' = [entry |-> entry,
              hashed_data_key_hex |-> hashed_data_key_hex,
              result |-> hash_registry_entry(entry, hashed_data_key_hex),
              op |-> "hash_registry_entry",
              pc |-> "done",
              normalized |-> hash_data_key(entry.data_key,
                                           hashed_data_key_hex)]
  /\ UNCHANGED <<holder, published>>

PureNext ==
  \/ \E master \in Masters, seed \in Labels : DeriveChildSeed(master, seed)
  \/ \E length \in SeedLengths :
       \E rng \in [1..length -> RngBytes] : GenKeypairAndSeed(length, rng)
  \/ \E seed \in Seeds \cup GeneratedSeeds : GenKeypairFromSeed(seed)
  \/ \E data_key \in DataKeys, data \in DataValues, revision \in Revisions,
        flag \in BOOLEAN :
       HashRegistryEntry(RegistryEntry(data_key, data, revision), flag)

PureSpec == PureInit /\ [][PureNext]_vars

Derived == call.op = "derive_child_seed"

-----------------------------------------------------------------------------
(* C13 *)

\* C13: for master seeds m of every length, 0 and lengths above 64 bytes
\* included, and all labels l, derive_child_seed(m, l) returns a seed of
\* len(m) bytes.
C13_SameLength ==
  Derived =>
    /\ call.result.tag = "Return"
    /\ ByteLen(call.result.value) = ByteLen(call.master)

-----------------------------------------------------------------------------
(* C14 *)

\* C14: for all master seeds m, short ones included, and all labels
\* l1 # l2, derive_child_seed(m, l1) # derive_child_seed(m, l2).
C14_DistinctChildren ==
  (Derived /\ call.result.tag = "Return") =>
    \A l \in Labels \ {call.seed} :
      derive_child_seed(call.master, l) # call.result

\* C14, amended: for master seeds m of 32 to 64 bytes and all labels
\* l1 # l2, derive_child_seed(m, l1) # derive_child_seed(m, l2), BLAKE2b
\* with an output of 32 bytes or more taken to be free of collisions.
C14_DistinctChildrenOfLongMasters ==
  (Derived /\ ByteLen(call.master) >= 32 /\ ByteLen(call.master) <= 64) =>
    /\ call.result.tag = "Return"
    /\ \A l \in Labels \ {call.seed} :
         derive_child_seed(call.master, l) # call.result

\* a child of a master of 32 bytes under the label "foo"
C14_Witness ==
  /\ Derived
  /\ ByteLen(call.master) = 32
  /\ call.seed = <<Lit(102), Lit(111), Lit(111)>>
  /\ call.result.tag = "Return"

-----------------------------------------------------------------------------
(* C15 *)

KeypairDerived ==
  call.op \in {"gen_keypair_from_seed", "gen_keypair_and_seed"}

\* C15: the key pair gen_keypair_and_seed returns with a seed s is
\* gen_keypair_from_seed(s), and a key pair derived from a seed is the
\* one every earlier derivation from that seed gave, whatever was derived
\* in between.
C15_Deterministic ==
  KeypairDerived =>
    /\ call.keypair = gen_keypair_from_seed(call.seed)
    /\ \A i \in 1..Len(published) :
         published[i].seed = call.seed =>
           published[i].keypair = call.keypair

\* gen_keypair_and_seed drew a seed of two different bytes that
\* gen_keypair_from_seed was given before
C15_Witness ==
  /\ call.op = "gen_keypair_and_seed"
  /\ Len(call.seed) = 2 /\ call.seed[1] # call.seed[2]
  /\ \E i \in 1..(Len(published) - 1) : published[i].seed = call.seed

-----------------------------------------------------------------------------
(* C16 *)

Hashed == call.op = "hash_registry_entry"

\* C16: with hashed_data_key_hex = true hash_data_key returns the data key
\* unchanged; so hash_data_key(hash_data_key(d, false), true) is
\* hash_data_key(d, false), and the canonical hash of an entry with the key
\* d under the flag false is that of the same entry with the key
\* hash_data_key(d, false) under the flag true.
C16_Idempotent ==
  Hashed =>
    IF call.hashed_data_key_hex
      THEN call.normalized = call.entry.data_key
      ELSE /\ hash_data_key(call.normalized, TRUE) = call.normalized
           /\ hash_registry_entry(
                [call.entry EXCEPT !.data_key = call.normalized], TRUE)
                = call.result

\* the canonical hash of an entry with a key that is not hashed, under the
\* flag false
C16_Witness ==
  /\ Hashed
  /\ ~call.hashed_data_key_hex
  /\ call.entry.data_key \in PublishKeys
  /\ call.normalized # call.entry.data_key

-----------------------------------------------------------------------------
(* C17 *)

Started(c) == call[c].op # "none"

Finished(c) == Started(c) /\ call[c].pc = "done"

\* C17: in every interleaving of calls of get_registry_entry and
\* set_registry_entry, the request a call emits is made of its own
\* arguments and the result it returns of its own arguments and of the
\* response it received; two calls with the same arguments and the same
\* response emit the same request and return the same result, whatever
\* other calls did before or do meanwhile.
C17_Independent ==
  /\ \A c \in Callers :
       Started(c) =>
         /\ call[c].request = RequestOf(call[c])
         /\ Finished(c) => call[c].result = ResultOf(call[c])
  /\ \A c, d \in Callers :
       (/\ Finished(c) /\ Finished(d)
        /\ ArgumentsOf(call[c]) = ArgumentsOf(call[d])
        /\ ResponseTo(call[c]) = ResponseTo(call[d])) =>
         /\ call[c].request = call[d].request
         /\ call[c].result = call[d].result

\* a lookup returned an entry while a lookup under another public key was
\* in flight
C17_Witness ==
  \E c, d \in Callers :
    /\ call[c].op = "get" /\ call[c].pc = "done"
    /\ call[c].result.tag = "Ok"
    /\ call[d].op = "get" /\ call[d].pc = "await"
    /\ call[d].public_key # call[c].public_key

-----------------------------------------------------------------------------
(* C18 *)

\* a revision that is not above one the store accepted, or one a lookup
\* returned, for the public key and data key of the entry
Stale(entry) ==
  \/ \E i \in 1..Len(published) :
       /\ published[i].public_key = holder.public_key
       /\ published[i].entry.data_key = entry.data_key
       /\ entry.revision <= published[i].entry.revision
  \/ \E d \in Callers :
       /\ call[d].op = "get" /\ call[d].pc = "done"
       /\ call[d].public_key = holder.public_key
       /\ call[d].data_key = entry.data_key
       /\ call[d].result.tag = "Ok"
       /\ entry.revision <= call[d].result.value.entry.revision

\* C18: a call of set_registry_entry made after publishes and lookups of
\* the same public key and data key, with a revision that is not above one
\* published or looked up before, is signed and submitted as any other
\* entry is: the call makes the request of its arguments, sends it, and
\* waits for the response.
C18_NoRevisionCheck ==
  [][\A c \in Callers :
       (/\ call[c].pc # "await"
        /\ call'[c] # call[c]
        /\ call'[c].op = "set"
        /\ Stale(call'[c].entry)) =>
         /\ call'[c].pc = "await"
         /\ call'[c].sent = 1
         /\ call'[c].request = set_request(call'[c].public_key,
                                           call'[c].private_key,
                                           call'[c].entry, call'[c].opt)
         /\ ed25519_verify(
              hash_registry_entry(call'[c].entry,
                                  call'[c].opt.hashed_data_key_hex),
              call'[c].public_key, call'[c].request.body.signature)]_vars

\* an entry with a revision the store holds already, and a lookup returned,
\* is on its way to the store
C18_Witness ==
  \E c, d \in Callers :
    /\ call[c].op = "set" /\ call[c].pc = "await" /\ call[c].sent = 1
    /\ call[d].op = "get" /\ call[d].pc = "done"
    /\ call[d].result.tag = "Ok"
    /\ call[d].public_key = call[c].public_key
    /\ call[d].data_key = call[c].entry.data_key
    /\ call[c].entry.revision <= call[d].result.value.entry.revision
    /\ call[c].entry.revision \in StoredRevisions(call[c].request)

-----------------------------------------------------------------------------
(* C19 *)

\* the payload carries the public key tagged "ed25519", the revision and
\* the data of the entry, the normalized data key, and a signature, made
\* with the private key over the canonical hash of the entry, that verifies
\* over the hash of the data key, data and revision the payload carries
PayloadOf(public_key, private_key, entry, opt, payload) ==
  /\ payload.publickey = [algorithm |-> "ed25519", key |-> public_key]
  /\ payload.revision = entry.revision
  /\ payload.data = entry.data
  /\ payload.datakey = hash_data_key(entry.data_key, opt.hashed_data_key_hex)
  /\ payload.signature =
       ed25519_signature(
         hash_registry_entry(entry, opt.hashed_data_key_hex), private_key)
  /\ ed25519_verify(
       Blake2b(32, payload.datakey \o payload.data
                     \o to_string(payload.revision)),
       public_key, payload.signature)

\* C19: the payload set_registry_entry submits is complete, hash and
\* signature included, when the one request is sent; it carries the
\* caller's public key tagged "ed25519", the revision and data of the
\* entry, a signature over the canonical hash of that entry, and as datakey
\* the normalized data key that went into the canonical hash.  What the
\* host receives is that payload.
C19_SignedPayload ==
  /\ call.op = "set" =>
       /\ call.request.method = "POST"
       /\ PayloadOf(call.public_key, call.private_key, call.entry, call.opt,
                    call.request.body)
  /\ \A i \in 1..Len(published) :
       PayloadOf(published[i].public_key, published[i].private_key,
                 published[i].entry, published[i].opt,
                 published[i].request.body)

\* the host received an entry whose data key was normalized by hashing
C19_Witness ==
  /\ call.op = "set" /\ call.pc = "done"
  /\ ~Flag
  /\ call.result = Ok(<<>>)
  /\ published # <<>>
  /\ published[Len(published)].request = call.request
  /\ call.request.body.datakey # call.entry.data_key

-----------------------------------------------------------------------------
(* C20 *)

\* C20: the entry get_registry_entry verifies and returns has the data key
\* the caller supplied, the data decoded from the hex of the response and
\* the revision of the response; the datakey of the lookup is that data
\* key normalized under the caller's hashed_data_key_hex, and it is the
\* data key the verified hash covers.
C20_CallerDataKey ==
  /\ call.op = "get" =>
       call.request.query.datakey = hash_data_key(call.data_key, Flag)
  /\ (GetDone /\ call.result.tag = "Ok") =>
       LET signed == call.result.value
       IN  /\ signed.entry.data_key = call.data_key
           /\ signed.entry.data = from_hex(call.body.data)
           /\ signed.entry.revision = call.body.revision
           /\ signed.signature = from_hex(call.body.signature)
           /\ ed25519_verify(
                Blake2b(32, call.request.query.datakey
                              \o signed.entry.data
                              \o to_string(signed.entry.revision)),
                call.public_key, signed.signature)

\* a lookup with a data key that is hashed already returned an entry that
\* was published under the key it is the hash of
C20_Witness ==
  /\ GetDone
  /\ Flag
  /\ call.result.tag = "Ok"
  /\ call.result.value.entry.data_key = call.data_key
  /\ \E i \in 1..Len(published) :
       /\ ~published[i].opt.hashed_data_key_hex
       /\ published[i].entry.data_key # call.data_key
       /\ published[i].request.body.datakey = call.request.query.datakey

=============================================================================
